---- MODULE Spec2Model ----
(***************************************************************************)
(* interactive_pool: a fixed-capacity pool of uniquely owned resources,    *)
(* its polling get_item / set_item, the pre-teardown check, the scoped     *)
(* guard interactive_pool_scoped_connection and the detector it feeds.     *)
(* Every thread is a caller of the pool; each lock_guard scope is an       *)
(* acquire step followed by one step for the body and the release.         *)
(***************************************************************************)
EXTENDS Integers, Sequences, FiniteSets, TLC

\* ------------------------------------------------------------------ bounds
MaxSize == 2            \* largest pool size constructed
MaxTime == 2            \* the clock counts milliseconds up to here, then saturates
MaxWait == 2            \* largest finite max_wait_ms a caller passes
MaxEmptyReleases == 1   \* set_item calls with an empty handle
Operations == 2         \* cycles of a worker of the examples (20 in the source)
MaxTrigger == 0         \* largest detector trigger level
MaxWindow == 3          \* largest window (samples) of an average detector
MaxCalls == 4           \* set_elapsed_time calls made on one detector

\* ------------------------------------------------------------- constants
\* numeric_limits<uint32_t>::max() milliseconds, the default max_wait_ms: more
\* than any elapsed time the clock can measure, kept as the least such value
UnlimitedWait == MaxTime + 1

\* Every thread calls get_item / set_item; the scoped guard and the two
\* diagnostics are used by the threads of GuardThreads.
Threads == {"t1", "t2"}
GuardThreads == {"t1"}
NoThread == "none"
NULL == 0                     \* an empty std::unique_ptr

WaitValues == (0..MaxWait) \cup {UnlimitedWait}

VARIABLES
    initialSize,   \* _initialSize
    freeItems,     \* _freeItems: sequence of handles, NULL or a resource 1..N
    lock,          \* _lock: the thread inside a lock_guard scope, or NoThread
    now,           \* high_resolution_clock::now(), in whole milliseconds
    destroyed,     \* resources deleted by the unique_ptr that owned them
    th,            \* per thread: control point, locals, caller's handles
    gh,            \* per thread: history of the operation in progress
    emptyReleases, \* history: set_item calls that were passed an empty handle
    i,             \* per worker thread: completed cycles (the examples' loop)
    det,           \* the detector object a worker constructed, with its members
    dh             \* history of the set_elapsed_time calls made on det

vars == <<initialSize, freeItems, lock, now, destroyed, th, gh, emptyReleases, i,
          det, dh>>

\* ------------------------------------------------------ pure definitions
\* interactive_pool(size): size freshly made resources, all in the free list.
RECURSIVE MakeItems(_)
MakeItems(n) == IF n = 0 THEN <<>> ELSE Append(MakeItems(n - 1), n)

Back(s) == s[Len(s)]
Front(s) == Head(s)

PopFrontKeep(s) == s
PopFront(s) == Tail(s)

PushBackDrop(s, r) == s
PushBack(s, r) == Append(s, r)

\* the do-while condition of get_item
KeepWaitingInclusive(elapsed, max_wait_ms) == elapsed <= max_wait_ms
KeepWaitingShort(elapsed, max_wait_ms) == elapsed + 1 < max_wait_ms
KeepWaiting(elapsed, max_wait_ms) == elapsed < max_wait_ms

\* get_available_count: _freeItems.size()
AvailableCount(s) == Len(s)

\* the test of check_before_destruct
NeverDifferent(current, size) == FALSE
DifferentCount(current, size) == current # size

LeakReport(current, size) == <<size, current>>

\* the lock_guard of thread t goes out of scope, by return or by throw
StillLocked(t) == t
Unlocked(t) == NoThread

\* the guard's destructor test: if (_p && _pool)
NeverReleases(p) == FALSE
MustRelease(p) == p # NULL

\* the guard's constructor test: if (_detector && time_elapsed_ms)
\* a null time_elapsed_ms / a null detector pointer
NoSample == [given |-> FALSE, init |-> 0, finish |-> 0, elapsed_time |-> 0]
NoDetector == [given |-> FALSE, trigger_level |-> 0]
FeedsDetectorAlways(detector, sample) == detector.given
FeedsDetector(detector, sample) == detector.given /\ sample.given

\* interactive_peak_detector::set_elapsed_time: does the callback fire
PeakFiresInclusive(v, trigger_level) == v >= trigger_level
PeakFires(v, trigger_level) == v > trigger_level

\* a freshly declared interactive_pool_time
FreshSample == [given |-> TRUE, init |-> 0, finish |-> 0, elapsed_time |-> 0]

\* `interactive_pool_time elapsedTime;` default-initialises its members: the
\* time points are the clock's epoch, the milliseconds count is indeterminate
FreshSamples == {[FreshSample EXCEPT !.elapsed_time = e] : e \in 0..1}

\* what a caller of the guard passes as time_elapsed_ms
GuardSamples == {NoSample} \cup FreshSamples

\* finish and elapsed_time of a sample
Stamps(sample) == <<sample.finish, sample.elapsed_time>>

\* time_elapsed_ms->init = now()
StampInitClears(sample, t) ==
    IF ~sample.given THEN sample
    ELSE [sample EXCEPT !.init = t, !.finish = t, !.elapsed_time = 0]
StampInit(sample, t) ==
    IF ~sample.given THEN sample ELSE [sample EXCEPT !.init = t]

\* finish = now(); elapsed_time = duration_cast<milliseconds>(finish - init)
StampFinish(sample, t) ==
    IF ~sample.given THEN sample
    ELSE [sample EXCEPT !.finish = t, !.elapsed_time = t - sample.init]

\* std::this_thread::sleep_for(1 ms) is over: a millisecond boundary has
\* passed, or the clock has stopped counting
SleepOver(from) == now > from \/ now = MaxTime

\* history counters tell 0, 1 and "more than once" apart
Once(n) == IF n < 2 THEN n + 1 ELSE n

HasHandle(s) == \E k \in 1..Len(s) : s[k] # NULL

\* ------------------------------------------------------------- uint32_t
\* A uint32_t is kept as its two 16-bit halves <<high, low>>, so that sums
\* wrap at 2^32 exactly as the machine word does.
Half == 65536
U32(n) == <<n \div Half, n % Half>>

\* a + b in uint32_t: the carry out of the high half is lost
Add32(a, b) ==
    LET lo == a[2] + b[2]
        hi == a[1] + b[1] + (lo \div Half)
    IN  <<hi % Half, lo % Half>>

\* a / n in uint32_t, for a small divisor n
Div32(a, n) == <<a[1] \div n, ((a[1] % n) * Half + a[2]) \div n>>

\* a > b in uint32_t
Gt32(a, b) == a[1] > b[1] \/ (a[1] = b[1] /\ a[2] > b[2])

\* ------------------------------------------------------------ detectors
\* std::deque<uint32_t> _samples(samples): samples value-initialised elements
RECURSIVE Zeros(_)
Zeros(n) == IF n = 0 THEN <<>> ELSE Append(Zeros(n - 1), U32(0))

\* interactive_average_detector(id, samples, trigger_level, fcn)
AverageDetector(id, samples, trigger_level) ==
    [kind |-> "average", id |-> id, samples_count |-> samples,
     samples |-> Zeros(samples), trigger_level |-> trigger_level]

\* interactive_peak_detector(id, trigger_level, fcn)
PeakDetectorObject(id, trigger_level) ==
    [kind |-> "peak", id |-> id, samples_count |-> 0,
     samples |-> <<>>, trigger_level |-> trigger_level]

\* no detector was constructed
NoDetectorObject ==
    [kind |-> "none", id |-> "", samples_count |-> 0,
     samples |-> <<>>, trigger_level |-> 0]

\* std::accumulate(begin, end, 0): the accumulator is an int, each addition
\* is made in unsigned int and converted back, so the sum is kept modulo 2^32
RECURSIVE Accumulate(_, _)
Accumulate(s, init) ==
    IF s = <<>> THEN init ELSE Accumulate(Tail(s), Add32(init, Head(s)))

\* average(): accumulate / static_cast<uint32_t>(size), 0 for no samples
Average(s) ==
    IF s = <<>> THEN U32(0) ELSE Div32(Accumulate(s, U32(0)), Len(s))

\* if (_samples.size() >= _samples_count) _samples.pop_front();
BufferFull(size, samples_count) == size >= samples_count

\* if (_samples.size() == _samples_count): the average is evaluated
BufferCompleted(size, samples_count) == size = samples_count

\* if (cur > _trigger_level)
AverageFires(cur, trigger_level) == Gt32(cur, trigger_level)

\* interactive_average_detector::set_elapsed_time(i): the detector after the
\* call, whether the average was evaluated, and the callback invocations
AverageSetElapsedTime(d, v) ==
    LET kept == IF BufferFull(Len(d.samples), d.samples_count)
                THEN Tail(d.samples) ELSE d.samples
        pushed == Append(kept, v)
        evaluated == BufferCompleted(Len(pushed), d.samples_count)
        cur == Average(pushed)
    IN  [d |-> [d EXCEPT !.samples = pushed],
         evaluated |-> evaluated,
         callbacks |-> IF evaluated /\ AverageFires(cur, d.trigger_level)
                       THEN <<<<d.id, d.trigger_level, cur>>>> ELSE <<>>]

\* interactive_peak_detector::set_elapsed_time(i)
PeakSetElapsedTime(d, v) ==
    [d |-> d,
     evaluated |-> TRUE,
     callbacks |-> IF PeakFires(v, d.trigger_level)
                   THEN <<<<d.id, d.trigger_level, v>>>> ELSE <<>>]

\* no set_elapsed_time call was made yet
NoCalls == [n |-> 0, fed |-> <<>>, evaluated |-> FALSE, callbacks |-> <<>>, fires |-> 0]

\* the history after one more call with value v and result res
Called(h, v, res) ==
    [n |-> h.n + 1, fed |-> Append(h.fed, v), evaluated |-> res.evaluated,
     callbacks |-> res.callbacks,
     fires |-> h.fires + (IF res.callbacks # <<>> THEN 1 ELSE 0)]

\* ------------------------------------------------------------ the state
IdleThread ==
    [pc |-> "idle", ctx |-> "direct", max_wait_ms |-> 0, sample |-> NoSample,
     t0 |-> 0, elapsed |-> 0,
     c |-> NULL, p |-> NULL, detector |-> NoDetector,
     exit |-> "normal", outcome |-> "none", report |-> <<>>]

FreshHistory ==
    [inspections |-> 0, sleeps |-> 0, net |-> 0, disturbed |-> FALSE,
     availSeen |-> FALSE, returns |-> 0, observed |-> 0, arg |-> 0,
     before |-> <<0, 0>>]

Init ==
    /\ initialSize \in 0..MaxSize
    /\ freeItems = MakeItems(initialSize)
    /\ lock = NoThread
    /\ now = 0
    /\ destroyed = {}
    /\ th = [t \in Threads |-> IdleThread]
    /\ gh = [t \in Threads |-> FreshHistory]
    /\ emptyReleases = 0
    /\ i = [t \in Threads |-> 0]
    /\ det = NoDetectorObject
    /\ dh = NoCalls

InGetItem(r) == r.pc \in {"gi_lock", "gi_cs", "gi_t1", "gi_sleep"}

\* between the start of a guard's constructor and the end of its destructor
InGuard(r) == r.ctx # "direct"

InWindow(r, t) ==
    r.max_wait_ms = UnlimitedWait \/ t <= r.t0 + r.max_wait_ms

\* History kept alongside every step of thread t (NoThread for the clock):
\* whether another thread changed the free list, the net change of its length
\* by the thread's own operation, and whether a handle was free while a
\* get_item call was inside its waiting window.
Track(t, g) ==
    [v \in Threads |->
        [g[v] EXCEPT
            !.disturbed = g[v].disturbed
                \/ (InGuard(th'[v]) /\ v # t /\ freeItems' # freeItems),
            !.net = IF v = t THEN @ + Len(freeItems') - Len(freeItems) ELSE @,
            !.availSeen = g[v].availSeen
                \/ (InGetItem(th'[v]) /\ InWindow(th'[v], now')
                    /\ HasHandle(freeItems'))]]

\* ------------------------------------------------------------- get_item
\* lines 84-94: t0 = now(), and init is stamped when a sample was passed
EnterGetItem(r, ctx, mw, sample) ==
    [r EXCEPT !.pc = "gi_lock", !.ctx = ctx, !.max_wait_ms = mw,
              !.sample = StampInit(sample, now), !.t0 = now, !.elapsed = 0,
              !.outcome = "none", !.report = <<>>]


\* item c = pool->get_item(max_wait_ms), as the callers of the examples do
CallGetItem(t, mw) ==
    /\ th[t].pc = "idle"
    /\ th[t].c = NULL
    /\ mw = UnlimitedWait \/ now + mw <= MaxTime
    /\ th' = [th EXCEPT ![t] = EnterGetItem(th[t], "direct", mw, NoSample)]
    /\ UNCHANGED <<initialSize, freeItems, lock, now, destroyed, emptyReleases, i, det, dh>>
    /\ gh' = Track(t, [gh EXCEPT ![t] = FreshHistory])

\* line 99: std::lock_guard l(_lock)
GetItemLock(t) ==
    /\ th[t].pc = "gi_lock"
    /\ lock = NoThread
    /\ lock' = t
    /\ th' = [th EXCEPT ![t].pc = "gi_cs"]
    /\ UNCHANGED <<initialSize, freeItems, now, destroyed, emptyReleases, i, det, dh>>
    /\ gh' = Track(t, gh)

\* get_item returns j to its caller: `item c = get_item()` or the guard's _p
Returned(r, j, sample) ==
    IF r.ctx = "ctor"
    THEN [r EXCEPT !.pc = "ctor_detect", !.p = j, !.sample = sample]
    ELSE [r EXCEPT !.pc = "done", !.c = j, !.sample = sample, !.outcome = "got"]

\* lines 101-116: the inspection of the free list under the lock
GetItemInspect(t) ==
    /\ th[t].pc = "gi_cs"
    /\ lock = t
    /\ lock' = Unlocked(t)
    /\ IF freeItems # <<>>
       THEN /\ freeItems' = PopFront(freeItems)
            /\ th' = [th EXCEPT ![t] =
                        Returned(th[t], Front(freeItems), StampFinish(th[t].sample, now))]
       ELSE /\ freeItems' = freeItems
            /\ th' = [th EXCEPT ![t].pc = "gi_t1"]
    /\ UNCHANGED <<initialSize, now, destroyed, emptyReleases, i, det, dh>>
    /\ gh' = Track(t, [gh EXCEPT ![t].inspections = Once(@)])

\* lines 119-123: t1 = now(); elapsed = t1 - t0; then go to sleep
GetItemElapsed(t) ==
    /\ th[t].pc = "gi_t1"
    /\ th' = [th EXCEPT ![t].pc = "gi_sleep", ![t].elapsed = now - th[t].t0]
    /\ UNCHANGED <<initialSize, freeItems, lock, now, destroyed, emptyReleases, i, det, dh>>
    /\ gh' = Track(t, [gh EXCEPT ![t].sleeps = Once(@)])

\* line 128: throw runtime_error("All items are in use"); the guard's
\* constructor lets it through, the guard is never constructed
ThrowsSwallowed(r) ==
    IF r.ctx = "ctor"
    THEN [r EXCEPT !.pc = "ctor_detect", !.outcome = "exhausted"]
    ELSE [r EXCEPT !.pc = "done", !.outcome = "exhausted"]
Throws(r) == [r EXCEPT !.pc = "done", !.outcome = "exhausted"]

\* lines 123-128: the sleep ends, the while condition is evaluated
GetItemWake(t) ==
    /\ th[t].pc = "gi_sleep"
    /\ SleepOver(th[t].t0 + th[t].elapsed)
    /\ th' = [th EXCEPT ![t] =
                IF KeepWaiting(th[t].elapsed, th[t].max_wait_ms)
                THEN [th[t] EXCEPT !.pc = "gi_lock"]
                ELSE Throws(th[t])]
    /\ UNCHANGED <<initialSize, freeItems, lock, now, destroyed, emptyReleases, i, det, dh>>
    /\ gh' = Track(t, gh)

\* ------------------------------------------------------------- set_item
\* pool->set_item(c) with the handle the caller obtained from get_item
CallSetItem(t) ==
    /\ th[t].pc = "idle"
    /\ th[t].c # NULL
    /\ th' = [th EXCEPT ![t].pc = "si_lock", ![t].ctx = "direct",
                        ![t].outcome = "none", ![t].report = <<>>]
    /\ UNCHANGED <<initialSize, freeItems, lock, now, destroyed, emptyReleases, i, det, dh>>
    /\ gh' = Track(t, [gh EXCEPT ![t] = FreshHistory])

\* pool->set_item(c) with an item variable that is empty: one that was
\* already passed to set_item, or was never filled
ReleaseEmpty(t) ==
    /\ th[t].pc = "idle"
    /\ th[t].c = NULL
    /\ emptyReleases < MaxEmptyReleases
    /\ th' = [th EXCEPT ![t].pc = "si_lock", ![t].ctx = "direct",
                        ![t].outcome = "none", ![t].report = <<>>]
    /\ UNCHANGED <<initialSize, freeItems, lock, now, destroyed, emptyReleases, i, det, dh>>
    /\ gh' = Track(t, [gh EXCEPT ![t] = FreshHistory])

\* line 143
SetItemLock(t) ==
    /\ th[t].pc = "si_lock"
    /\ lock = NoThread
    /\ lock' = t
    /\ th' = [th EXCEPT ![t].pc = "si_cs"]
    /\ UNCHANGED <<initialSize, freeItems, now, destroyed, emptyReleases, i, det, dh>>
    /\ gh' = Track(t, gh)

\* line 144: _freeItems.push_back(std::move(r)); r is left empty
SetItemPush(t) ==
    /\ th[t].pc = "si_cs"
    /\ lock = t
    /\ lock' = Unlocked(t)
    /\ LET r == IF th[t].ctx = "dtor" THEN th[t].p ELSE th[t].c IN
        /\ freeItems' = PushBack(freeItems, r)
        /\ emptyReleases' = IF r = NULL THEN emptyReleases + 1 ELSE emptyReleases
        /\ th' = [th EXCEPT ![t] =
                    IF th[t].ctx = "dtor"
                    THEN [th[t] EXCEPT !.pc = "done", !.p = NULL, !.outcome = "destroyed"]
                    ELSE [th[t] EXCEPT !.pc = "done", !.c = NULL, !.outcome = "released"]]
    /\ UNCHANGED <<initialSize, now, destroyed, i, det, dh>>
    /\ gh' = Track(t, [gh EXCEPT ![t].returns = Once(@)])

\* -------------------------------------------------- check_before_destruct
CallCheck(t) ==
    /\ th[t].pc = "idle"
    /\ th' = [th EXCEPT ![t].pc = "cb_lock", ![t].ctx = "direct",
                        ![t].outcome = "none", ![t].report = <<>>]
    /\ UNCHANGED <<initialSize, freeItems, lock, now, destroyed, emptyReleases, i, det, dh>>
    /\ gh' = Track(t, [gh EXCEPT ![t] = FreshHistory])

\* line 60
CheckLock(t) ==
    /\ th[t].pc = "cb_lock"
    /\ lock = NoThread
    /\ lock' = t
    /\ th' = [th EXCEPT ![t].pc = "cb_cs"]
    /\ UNCHANGED <<initialSize, freeItems, now, destroyed, emptyReleases, i, det, dh>>
    /\ gh' = Track(t, gh)

\* lines 61-66: compare, throw the leak error or return; the lock_guard
\* releases the lock on both paths
CheckCompare(t) ==
    /\ th[t].pc = "cb_cs"
    /\ lock = t
    /\ lock' = Unlocked(t)
    /\ LET current == AvailableCount(freeItems) IN
        th' = [th EXCEPT ![t] =
                IF DifferentCount(current, initialSize)
                THEN [th[t] EXCEPT !.pc = "done", !.outcome = "leak",
                                   !.report = LeakReport(current, initialSize)]
                ELSE [th[t] EXCEPT !.pc = "done", !.outcome = "checked"]]
    /\ UNCHANGED <<initialSize, freeItems, now, destroyed, emptyReleases, i, det, dh>>
    /\ gh' = Track(t, gh)

\* ---------------------------------------------------- get_available_count
CallCount(t) ==
    /\ th[t].pc = "idle"
    /\ th' = [th EXCEPT ![t].pc = "ac_lock", ![t].ctx = "direct",
                        ![t].outcome = "none", ![t].report = <<>>]
    /\ UNCHANGED <<initialSize, freeItems, lock, now, destroyed, emptyReleases, i, det, dh>>
    /\ gh' = Track(t, [gh EXCEPT ![t] = FreshHistory])

\* line 135
CountLock(t) ==
    /\ th[t].pc = "ac_lock"
    /\ lock = NoThread
    /\ lock' = t
    /\ th' = [th EXCEPT ![t].pc = "ac_cs"]
    /\ UNCHANGED <<initialSize, freeItems, now, destroyed, emptyReleases, i, det, dh>>
    /\ gh' = Track(t, gh)

\* line 136
CountRead(t) ==
    /\ th[t].pc = "ac_cs"
    /\ lock = t
    /\ lock' = Unlocked(t)
    /\ th' = [th EXCEPT ![t].pc = "done", ![t].outcome = "counted",
                        ![t].report = <<AvailableCount(freeItems)>>]
    /\ UNCHANGED <<initialSize, freeItems, now, destroyed, emptyReleases, i, det, dh>>
    /\ gh' = Track(t, gh)

\* --------------------------------------- interactive_pool_scoped_connection
Detectors ==
    {NoDetector} \cup
    [given : {TRUE}, trigger_level : 0..MaxTrigger]

\* lines 262-269: _p(nullptr), then _p = _pool->get_item(max_wait_ms, sample)
EnterGuard(r, mw, sample, detector) ==
    [EnterGetItem(r, "ctor", mw, sample) EXCEPT !.p = NULL, !.detector = detector,
                                                !.exit = "normal"]

GuardConstruct(t, mw, sample, detector) ==
    /\ th[t].pc = "idle"
    /\ th[t].c = NULL
    /\ mw = UnlimitedWait \/ now + mw <= MaxTime
    /\ th' = [th EXCEPT ![t] = EnterGuard(th[t], mw, sample, detector)]
    /\ UNCHANGED <<initialSize, freeItems, lock, now, destroyed, emptyReleases, i, det, dh>>
    /\ gh' = Track(t, [gh EXCEPT ![t] = [FreshHistory EXCEPT !.before = Stamps(sample)]])

\* The callback threw inside the constructor body: the guard was never
\* constructed, so its destructor does not run; the member _p is destroyed
\* and deletes the resource it owns.
CallbackThrew(r) ==
    [r EXCEPT !.pc = "done", !.p = NULL, !.outcome = "detector_error"]

\* The constructor returns: its parameters and get_item's locals are gone,
\* the guard keeps _p, _pool and _detector.
Constructed(r) ==
    [r EXCEPT !.pc = "scope", !.max_wait_ms = 0, !.sample = NoSample,
              !.t0 = 0, !.elapsed = 0]

\* the history of the finished get_item call is dropped with its locals
AfterGetItem(g) ==
    [g EXCEPT !.inspections = 0, !.sleeps = 0, !.availSeen = FALSE,
              !.before = <<0, 0>>]

\* lines 270-274: forward the elapsed time to the detector; the callback is
\* the user's, it returns or throws
GuardObserve(t, throws) ==
    /\ th[t].pc = "ctor_detect"
    /\ UNCHANGED <<initialSize, freeItems, lock, now, emptyReleases, i, det, dh>>
    /\ LET r == th[t]
           fed == FeedsDetector(r.detector, r.sample)
           fires == fed /\ PeakFires(r.sample.elapsed_time, r.detector.trigger_level)
       IN
        /\ throws => fires
        /\ IF fires /\ throws
           THEN /\ th' = [th EXCEPT ![t] = CallbackThrew(r)]
                /\ destroyed' = destroyed \cup ({r.p} \ {NULL})
           ELSE /\ th' = [th EXCEPT ![t] = Constructed(r)]
                /\ destroyed' = destroyed
        /\ gh' = Track(t, [gh EXCEPT ![t] = AfterGetItem(
                                 [@ EXCEPT !.observed = IF fed THEN Once(@) ELSE @,
                                           !.arg = IF fed THEN r.sample.elapsed_time
                                                   ELSE @])])

\* the block that declared the guard ends: normally, or by an error thrown
\* by the resource's own operation (c->Write())
ScopeExits == {"normal", "error"}

GuardScopeEnd(t, how) ==
    /\ th[t].pc = "scope"
    /\ th' = [th EXCEPT ![t].pc = "dtor", ![t].exit = how]
    /\ UNCHANGED <<initialSize, freeItems, lock, now, destroyed, emptyReleases, i, det, dh>>
    /\ gh' = Track(t, [gh EXCEPT ![t].observed = 0, ![t].arg = 0])

\* lines 283-289: if (_p && _pool) _pool->set_item(_p)
GuardDestruct(t) ==
    /\ th[t].pc = "dtor"
    /\ th' = [th EXCEPT ![t] =
                IF MustRelease(th[t].p)
                THEN [th[t] EXCEPT !.pc = "si_lock", !.ctx = "dtor"]
                ELSE [th[t] EXCEPT !.pc = "done", !.outcome = "destroyed"]]
    /\ UNCHANGED <<initialSize, freeItems, lock, now, destroyed, emptyReleases, i, det, dh>>
    /\ gh' = Track(t, gh)

\* ------------------------------------------------------------ the caller
\* the caller leaves the block of the finished operation: its locals (the
\* sample, the caught exception) go out of scope, the handle c stays
Continue(t) ==
    /\ th[t].pc = "done"
    /\ th' = [th EXCEPT ![t] = [IdleThread EXCEPT !.c = th[t].c]]
    /\ UNCHANGED <<initialSize, freeItems, lock, now, destroyed, emptyReleases, i, det, dh>>
    /\ gh' = Track(t, [gh EXCEPT ![t] = FreshHistory])

\* ------------------------------------------------------------ the clock
Tick ==
    /\ now < MaxTime
    /\ now' = now + 1
    /\ UNCHANGED <<initialSize, freeItems, lock, destroyed, th, emptyReleases, i, det, dh>>
    /\ gh' = Track(NoThread, gh)

Next ==
    \/ \E t \in Threads, mw \in WaitValues : CallGetItem(t, mw)
    \/ \E t \in Threads : GetItemLock(t)
    \/ \E t \in Threads : GetItemInspect(t)
    \/ \E t \in Threads : GetItemElapsed(t)
    \/ \E t \in Threads : GetItemWake(t)
    \/ \E t \in Threads : CallSetItem(t)
    \/ \E t \in Threads : SetItemLock(t)
    \/ \E t \in Threads : SetItemPush(t)
    \/ \E t \in GuardThreads : CallCheck(t)
    \/ \E t \in GuardThreads : CheckLock(t)
    \/ \E t \in GuardThreads : CheckCompare(t)
    \/ \E t \in GuardThreads : CallCount(t)
    \/ \E t \in GuardThreads : CountLock(t)
    \/ \E t \in GuardThreads : CountRead(t)
    \/ \E t \in GuardThreads, mw \in WaitValues, s \in GuardSamples, d \in Detectors :
            GuardConstruct(t, mw, s, d)
    \/ \E t \in GuardThreads, throws \in BOOLEAN : GuardObserve(t, throws)
    \/ \E t \in GuardThreads, how \in ScopeExits : GuardScopeEnd(t, how)
    \/ \E t \in GuardThreads : GuardDestruct(t)
    \/ \E t \in Threads : Continue(t)
    \/ Tick

\* The callers of Spec keep set_item's contract: they pass it the handles
\* they obtained from get_item, each once.
Spec == Init /\ [][Next]_vars

\* The callers of SpecMisuse also pass empty handles to set_item.
NextMisuse ==
    \/ Next
    \/ \E t \in Threads : ReleaseEmpty(t)

SpecMisuse == Init /\ [][NextMisuse]_vars

\* ------------------------------------------- the operations under fairness
\* the lock_guard constructions of the four operations
Locks(t) == GetItemLock(t) \/ SetItemLock(t) \/ CheckLock(t) \/ CountLock(t)

\* the steps of a running thread that wait for nothing but the processor
\* and, in GetItemWake, for the end of the 1 ms sleep
Runs(t) ==
    \/ GetItemInspect(t) \/ GetItemElapsed(t) \/ GetItemWake(t)
    \/ SetItemPush(t) \/ CheckCompare(t) \/ CountRead(t)

\* The callers of the four operations of the pool, without the guard.
NextCallers ==
    \/ \E t \in Threads, mw \in WaitValues : CallGetItem(t, mw)
    \/ \E t \in Threads : GetItemLock(t)
    \/ \E t \in Threads : GetItemInspect(t)
    \/ \E t \in Threads : GetItemElapsed(t)
    \/ \E t \in Threads : GetItemWake(t)
    \/ \E t \in Threads : CallSetItem(t)
    \/ \E t \in Threads : SetItemLock(t)
    \/ \E t \in Threads : SetItemPush(t)
    \/ \E t \in GuardThreads : CallCheck(t)
    \/ \E t \in GuardThreads : CheckLock(t)
    \/ \E t \in GuardThreads : CheckCompare(t)
    \/ \E t \in GuardThreads : CallCount(t)
    \/ \E t \in GuardThreads : CountLock(t)
    \/ \E t \in GuardThreads : CountRead(t)
    \/ \E t \in Threads : Continue(t)
    \/ Tick

\* Every thread is scheduled, the clock advances, and a thread that keeps
\* asking for the mutex is granted it when it is free again and again.
FairCallers ==
    /\ Init /\ [][NextCallers]_vars
    /\ WF_vars(Tick)
    /\ \A t \in Threads : WF_vars(Runs(t)) /\ SF_vars(Locks(t))

\* ------------------------------------------------- the detectors, driven
\* A worker of the examples constructs one detector; its set_elapsed_time is
\* then called with the elapsed times of the acquisitions, any values.
DetectorId == "Connection Pool 1"

\* the elapsed times passed to an average detector
SampleValues ==
    {U32(0), U32(10), U32(50), U32(60), U32(200), <<Half \div 2, 0>>, <<Half - 1, Half - 1>>}

\* its trigger levels
TriggerLevels == {U32(0), U32(100)}

\* the elapsed times passed to a peak detector
PeakValues == 0..(MaxTrigger + 2)

InitDetectors ==
    /\ initialSize = 0
    /\ freeItems = MakeItems(initialSize)
    /\ lock = NoThread
    /\ now = 0
    /\ destroyed = {}
    /\ th = [t \in Threads |-> IdleThread]
    /\ gh = [t \in Threads |-> FreshHistory]
    /\ emptyReleases = 0
    /\ i = [t \in Threads |-> 0]
    /\ \/ det \in {AverageDetector(DetectorId, w, l) : w \in 1..MaxWindow, l \in TriggerLevels}
       \/ det \in {PeakDetectorObject(DetectorId, l) : l \in 0..(MaxTrigger + 1)}
    /\ dh = NoCalls

AverageObserve(v) ==
    /\ det.kind = "average"
    /\ dh.n < MaxCalls
    /\ LET res == AverageSetElapsedTime(det, v) IN
        /\ det' = res.d
        /\ dh' = Called(dh, v, res)
    /\ UNCHANGED <<initialSize, freeItems, lock, now, destroyed, th, gh, emptyReleases, i>>

PeakObserve(v) ==
    /\ det.kind = "peak"
    /\ dh.n < MaxCalls
    /\ LET res == PeakSetElapsedTime(det, v) IN
        /\ det' = res.d
        /\ dh' = Called(dh, v, res)
    /\ UNCHANGED <<initialSize, freeItems, lock, now, destroyed, th, gh, emptyReleases, i>>

NextDetectors ==
    \/ \E v \in SampleValues : AverageObserve(v)
    \/ \E v \in PeakValues : PeakObserve(v)

SpecDetectors == InitDetectors /\ [][NextDetectors]_vars

\* ------------------------------------------------ the examples' workload
\* scoped_pool_with_peak_time_control: every thread is a worker that runs
\* Operations cycles of { guard c(pool, max, &elapsedTime, &_peak);
\* c->Write(); }; main joins the workers and calls check_before_destruct.
PeakDetector == [given |-> TRUE, trigger_level |-> MaxTrigger]

\* line 68: the guard is constructed with the unlimited wait
WorkerAcquire(t) ==
    /\ i[t] < Operations
    /\ GuardConstruct(t, UnlimitedWait, FreshSample, PeakDetector)

\* peak_alarm_function prints and returns
WorkerObserve(t) == GuardObserve(t, FALSE)

\* line 70: c->Write() returns, the try block ends
WorkerWrite(t) == GuardScopeEnd(t, "normal")

\* lines 63-81: the cycle counts unless an exception was caught (i--)
WorkerLoop(t) ==
    /\ th[t].pc = "done"
    /\ th[t].outcome \in {"destroyed", "exhausted", "detector_error"}
    /\ th' = [th EXCEPT ![t] = IdleThread]
    /\ i' = [i EXCEPT ![t] = IF th[t].outcome = "destroyed" THEN @ + 1 ELSE @]
    /\ UNCHANGED <<initialSize, freeItems, lock, now, destroyed, emptyReleases, det, dh>>
    /\ gh' = Track(t, [gh EXCEPT ![t] = FreshHistory])

Joined == \A t \in Threads : i[t] = Operations /\ th[t].pc = "idle"

\* lines 98-103: after the joins, main checks the pool once
MainCheck(t) ==
    /\ Joined
    /\ CallCheck(t)

WorkerStep(t) ==
    \/ WorkerAcquire(t)
    \/ GetItemLock(t)
    \/ GetItemInspect(t)
    \/ GetItemElapsed(t)
    \/ GetItemWake(t)
    \/ WorkerObserve(t)
    \/ WorkerWrite(t)
    \/ GuardDestruct(t)
    \/ SetItemLock(t)
    \/ SetItemPush(t)
    \/ WorkerLoop(t)

MainStep(t) ==
    \/ MainCheck(t)
    \/ CheckLock(t)
    \/ CheckCompare(t)

\* a thread waiting for the mutex
Acquires(t) == GetItemLock(t) \/ SetItemLock(t) \/ CheckLock(t)

InitWorkers == Init /\ initialSize >= 1

NextWorkers ==
    \/ \E t \in Threads : WorkerStep(t)
    \/ \E t \in GuardThreads : MainStep(t)
    \/ Tick

\* Every runnable thread is scheduled and the clock advances; a thread that
\* waits for the mutex gets it, because each poller sleeps between two of its
\* acquisitions.
FairSpec ==
    /\ InitWorkers
    /\ [][NextWorkers]_vars
    /\ \A t \in Threads :
        WF_vars(WorkerStep(t)) /\ WF_vars(MainStep(t)) /\ SF_vars(Acquires(t))
    /\ WF_vars(Tick)

\* ------------------------------------------------------------ vocabulary
Resources == 1..initialSize

\* the handles in callers' hands: a caller's item variable c, a guard's _p
Holdings == {<<t, "c">> : t \in {u \in Threads : th[u].c # NULL}}
            \cup {<<t, "p">> : t \in {u \in Threads : th[u].p # NULL}}

HolderOf(h) == IF h[2] = "c" THEN th[h[1]].c ELSE th[h[1]].p

HeldCount == Cardinality(Holdings)

Occurrences(s, r) == Cardinality({k \in 1..Len(s) : s[k] = r})

\* no call of the pool, and no constructor or destructor of a guard, is running
Quiescent == \A t \in Threads : th[t].pc \in {"idle", "done", "scope"}

\* set_item was only ever passed handles obtained from get_item, each once
ContractKept == emptyReleases = 0

\* thread t takes the step that inspects the free list
Inspects(t) == th[t].pc = "gi_cs" /\ th'[t].pc # "gi_cs"

\* thread t has just come back from get_item with a handle
GotItem(r) == (r.pc = "done" /\ r.outcome = "got") \/ r.pc = "ctor_detect"

\* ----------------------------------------------------------------- claims
\* C1: a pool constructed with size N starts with N free handles, and at
\* every quiescent point of callers that pass each obtained handle to
\* set_item at most once and destroy none, the free handles plus the handles
\* held by callers are N.
ConservationC1 ==
    (Quiescent /\ ContractKept /\ destroyed = {})
        => AvailableCount(freeItems) + HeldCount = initialSize

WitnessC1 ==
    /\ Quiescent /\ ContractKept /\ destroyed = {}
    /\ HeldCount = 1 /\ AvailableCount(freeItems) = 1
    /\ \E t \in Threads : th[t].pc = "done" /\ th[t].outcome = "released"

\* C2: under every interleaving no resource is held by two callers, none is
\* both in the free list and held, and none is in the free list twice.
ExclusiveOwnershipC2 ==
    \A r \in Resources :
        Cardinality({h \in Holdings : HolderOf(h) = r}) + Occurrences(freeItems, r) <= 1

WitnessC2 ==
    \E t, u \in Threads :
        /\ t # u
        /\ th[u].c # NULL /\ gh[u].inspections = 2
        /\ th[t].pc = "gi_sleep" /\ gh[t].inspections = 2

\* C3: a guard that was constructed gives its resource back exactly once
\* when it is destroyed, on the normal and on the error exit; when no other
\* thread changed the free list meanwhile, available_count() is what it was
\* before the guard was constructed.
GuardReturnsC3 ==
    \A t \in Threads :
        (th[t].pc = "done" /\ th[t].outcome = "destroyed")
            => /\ gh[t].returns = 1
               /\ th[t].p = NULL
               /\ ~gh[t].disturbed => gh[t].net = 0

WitnessC3 ==
    \E t \in Threads :
        /\ th[t].pc = "done" /\ th[t].outcome = "destroyed"
        /\ th[t].exit = "error" /\ ~gh[t].disturbed

\* C4: when the detector callback throws inside the guard's constructor the
\* acquired resource is not lost: with no other activity, available_count()
\* is what it was before the construction attempt.
DetectorFailureKeepsResourceC4 ==
    \A t \in Threads :
        (th[t].pc = "done" /\ th[t].outcome = "detector_error" /\ ~gh[t].disturbed)
            => gh[t].net = 0 /\ destroyed = {}

\* C5: when get_item fails inside the guard's constructor the construction
\* fails with the pool-exhausted error, the guard holds nothing, no set_item
\* is made for it, the detector is not invoked and the call left the free
\* list as it was.
GetItemFailureInGuardC5 ==
    \A t \in Threads :
        (th[t].ctx = "ctor" /\ th[t].outcome = "exhausted")
            => /\ th[t].pc = "done"
               /\ th[t].p = NULL
               /\ gh[t].returns = 0
               /\ gh[t].observed = 0
               /\ gh[t].net = 0

WitnessC5 ==
    \E t \in Threads :
        /\ th[t].ctx = "ctor" /\ th[t].outcome = "exhausted"
        /\ th[t].detector.given /\ th[t].sample.given
        /\ gh[t].inspections = 2

\* C6: get_item with max_wait_ms = 0 inspects the free list exactly once: it
\* returns a handle if that inspection finds one and otherwise fails without
\* a second inspection, leaving the free list as it was.
TryOnceC6 ==
    \A t \in Threads :
        LET r == th[t] IN
        (r.max_wait_ms = 0 /\ (InGetItem(r) \/ GotItem(r) \/ r.outcome = "exhausted"))
            => /\ gh[t].inspections <= 1
               /\ r.pc \in {"gi_t1", "gi_sleep", "done", "ctor_detect"}
                    => gh[t].inspections = 1
               /\ r.pc = "gi_sleep" => ~KeepWaiting(r.elapsed, r.max_wait_ms)
               /\ r.outcome = "exhausted" => gh[t].net = 0
               /\ GotItem(r) => gh[t].net = -1

WitnessC6 ==
    \E t, u \in Threads :
        /\ th[t].max_wait_ms = 0 /\ th[t].outcome = "exhausted"
        /\ th[u].pc = "done" /\ th[u].outcome = "released"
        /\ freeItems # <<>>

\* C7: a get_item whose first inspection finds the free list non-empty
\* returns the front handle without sleeping, whatever max_wait_ms is, and
\* leaves the rest of the free list in its order.
FirstInspectionC7 ==
    [][\A t \in Threads :
        (Inspects(t) /\ gh[t].inspections = 0 /\ freeItems # <<>>)
            => /\ GotItem(th'[t])
               /\ (IF th[t].ctx = "ctor" THEN th'[t].p ELSE th'[t].c) = freeItems[1]
               /\ freeItems' = SubSeq(freeItems, 2, Len(freeItems))
               /\ gh'[t].sleeps = 0]_vars

WitnessC7 ==
    \E t \in Threads :
        /\ GotItem(th[t]) /\ gh[t].inspections = 1 /\ gh[t].sleeps = 0
        /\ th[t].max_wait_ms = UnlimitedWait
        /\ freeItems # <<>>

\* C8 as stated: get_item fails only when no handle was in the free list at
\* any moment between the start of the call and max_wait_ms after it.
NoFailureWhileAvailableC8 ==
    \A t \in Threads : th[t].outcome = "exhausted" => ~gh[t].availSeen

\* C8 as amended: get_item fails only after inspections of its own that all
\* found the free list empty, the last of them followed by a measured
\* elapsed time of at least max_wait_ms; it took and changed nothing.
FailsAfterEmptyInspectionsC8 ==
    \A t \in Threads :
        th[t].outcome = "exhausted"
            => /\ gh[t].inspections >= 1
               /\ gh[t].sleeps = gh[t].inspections
               /\ th[t].elapsed >= th[t].max_wait_ms
               /\ gh[t].net = 0
               /\ (IF th[t].ctx = "ctor" THEN th[t].p ELSE th[t].c) = NULL

WitnessC8 ==
    \E t \in Threads :
        /\ th[t].outcome = "exhausted" /\ gh[t].availSeen
        /\ th[t].max_wait_ms = MaxWait /\ gh[t].inspections = 2

\* C9: check_before_destruct succeeds exactly when no obtained handle is
\* outstanding (held, or destroyed by its holder); otherwise it reports the
\* initial capacity and the current length of the free list; it never
\* changes the free list.
Compares(t) == th[t].pc = "cb_cs" /\ th'[t].pc = "done"

CheckBeforeDestructC9 ==
    [][\A t \in Threads :
        Compares(t)
            => /\ th'[t].outcome \in {"checked", "leak"}
               /\ th'[t].outcome = "checked" <=> (HeldCount = 0 /\ destroyed = {})
               /\ th'[t].outcome = "leak"
                    => th'[t].report = <<initialSize, Len(freeItems)>>
               /\ freeItems' = freeItems]_vars

WitnessC9 ==
    \E t, u \in Threads :
        /\ th[t].pc = "done" /\ th[t].outcome = "leak"
        /\ th[t].report = <<initialSize, Len(freeItems)>>
        /\ Len(freeItems) = 1 /\ initialSize = 2
        /\ th[u].c # NULL

\* C10: with a pool of size P >= 1 shared by the workers, each running
\* Operations cycles of construct guard with unlimited wait / use / destroy,
\* under fair scheduling every cycle completes and the check made after the
\* joins succeeds.
WorkloadDone ==
    /\ \A t \in Threads : i[t] = Operations
    /\ \E t \in GuardThreads : th[t].pc = "done" /\ th[t].outcome = "checked"

WorkloadCompletesC10 == <>WorkloadDone

WitnessC10 ==
    /\ WorkloadDone
    /\ initialSize < Cardinality(Threads)

\* ------------------------------------------------ detectors: vocabulary
\* the last n elements of s
LastOf(s, n) == SubSeq(s, Len(s) - n + 1, Len(s))

RECURSIVE SumHigh(_)
SumHigh(s) == IF s = <<>> THEN 0 ELSE s[1][1] + SumHigh(Tail(s))

RECURSIVE SumLow(_)
SumLow(s) == IF s = <<>> THEN 0 ELSE s[1][2] + SumLow(Tail(s))

\* floor(sum of the samples / count) of a non-empty sequence, the sum taken
\* in the integers: long division of the unwrapped sum by the count
ExactMean(s) ==
    LET n == Len(s)
        lo == SumLow(s)
        hi == SumHigh(s) + (lo \div Half)
    IN  <<hi \div n, ((hi % n) * Half + (lo % Half)) \div n>>

\* C11: none of the first W-1 set_elapsed_time calls on an average detector
\* of window W evaluates the average or invokes the callback.
WarmUpC11 ==
    (det.kind = "average" /\ dh.n >= 1 /\ dh.n < det.samples_count)
        => (~dh.evaluated /\ dh.callbacks = <<>>)

\* C12: on the n-th call with n >= W the oldest sample has been evicted, the
\* average is evaluated, and the callback is invoked exactly once with
\* (id, trigger_level, avg) iff avg > trigger_level, avg being the truncated
\* mean of the W most recently observed samples.
SlidingWindowC12 ==
    (det.kind = "average" /\ dh.n >= det.samples_count)
        => LET recent == LastOf(dh.fed, det.samples_count)
               avg == ExactMean(recent)
           IN  /\ det.samples = recent
               /\ dh.evaluated
               /\ dh.callbacks = IF Gt32(avg, det.trigger_level)
                                 THEN <<<<det.id, det.trigger_level, avg>>>>
                                 ELSE <<>>

\* C13: every set_elapsed_time(v) on a peak detector invokes the callback
\* exactly once with (id, trigger_level, v) when v > trigger_level and not at
\* all when v <= trigger_level, whatever the earlier calls were.
PeakEveryCallC13 ==
    (det.kind = "peak" /\ dh.n >= 1)
        => LET v == dh.fed[dh.n] IN
            /\ v > det.trigger_level
                => dh.callbacks = <<<<det.id, det.trigger_level, v>>>>
            /\ v <= det.trigger_level => dh.callbacks = <<>>

WitnessC13 ==
    /\ det.kind = "peak" /\ dh.n = 3
    /\ dh.fed[1] > det.trigger_level
    /\ dh.fed[2] = det.trigger_level
    /\ dh.fed[3] = dh.fed[1]
    /\ dh.fires = 2 /\ dh.callbacks # <<>>

\* --------------------------------------------------- the pool, continued
\* thread t's get_item call has failed with the pool-exhausted error
Exhausted(t) == th[t].pc = "done" /\ th[t].outcome = "exhausted"

\* C14: the guard's constructor calls set_elapsed_time exactly once, with the
\* elapsed time stamped in the sample by this acquisition and while _p holds
\* the handle, iff get_item returned and a sample and a detector were both
\* passed; it makes no call when either is absent or when get_item threw.
ForwardingC14 ==
    [][\A t \in Threads :
        /\ (th[t].pc = "ctor_detect" /\ th'[t].pc # "ctor_detect")
            => IF th[t].detector.given /\ th[t].sample.given
               THEN /\ gh[t].observed = 0 /\ gh'[t].observed = 1
                    /\ gh'[t].arg = th[t].sample.elapsed_time
                    /\ th[t].sample.elapsed_time = th[t].sample.finish - th[t].t0
                    /\ th[t].p # NULL
               ELSE gh'[t].observed = 0
        /\ th[t].pc # "ctor_detect" => gh'[t].observed <= gh[t].observed
        /\ (th'[t].ctx = "ctor" /\ th'[t].pc = "done" /\ th'[t].outcome = "exhausted")
            => gh'[t].observed = 0]_vars

WitnessC14 ==
    \E t \in Threads :
        /\ th[t].pc = "scope" /\ th[t].p # NULL
        /\ gh[t].observed = 1 /\ gh[t].arg = 1

\* C15: a get_item call with max_wait_ms = 0 that fails has made no sleep
\* between its single inspection and the failure.
ImmediateFailureC15 ==
    \A t \in Threads :
        (Exhausted(t) /\ th[t].max_wait_ms = 0)
            => (gh[t].inspections = 1 /\ gh[t].sleeps = 0)

\* C16: on a pool of size 0 no get_item call returns a handle, and every
\* call fails at once, without waiting for its max_wait_ms to elapse.
ZeroPoolImmediateC16 ==
    initialSize = 0 =>
        \A t \in Threads :
            /\ th[t].c = NULL /\ th[t].p = NULL
            /\ Exhausted(t)
                => /\ gh[t].inspections = 1
                   /\ th[t].max_wait_ms > 0 => th[t].elapsed < th[t].max_wait_ms

\* C16, amended: on a pool of size 0 no get_item call returns a handle, and a
\* call fails only once the elapsed time it measured reached max_wait_ms.
ZeroPoolTimesOutC16 ==
    initialSize = 0 =>
        \A t \in Threads :
            /\ th[t].c = NULL /\ th[t].p = NULL
            /\ th[t].outcome # "got"
            /\ Exhausted(t) => th[t].elapsed >= th[t].max_wait_ms

WitnessC16 ==
    \E t \in Threads :
        /\ initialSize = 0
        /\ Exhausted(t) /\ th[t].max_wait_ms = 2
        /\ gh[t].inspections = 2

\* C19: the free list changes only by set_item appending the returned handle
\* at its tail and by get_item removing the handle at its head, which is the
\* handle the call returns: handles leave in the order they entered.
FifoC19 ==
    [][\/ freeItems' = freeItems
       \/ \E t \in Threads :
            /\ th[t].pc = "gi_cs" /\ freeItems # <<>>
            /\ freeItems' = Tail(freeItems)
            /\ \/ th'[t].c = Head(freeItems) /\ th[t].c = NULL
               \/ th'[t].p = Head(freeItems) /\ th[t].p = NULL
       \/ \E t \in Threads :
            /\ th[t].pc = "si_cs"
            /\ \/ freeItems' = Append(freeItems, th[t].c) /\ th[t].ctx # "dtor"
               \/ freeItems' = Append(freeItems, th[t].p) /\ th[t].ctx = "dtor"]_vars

WitnessC19 ==
    \E t \in Threads :
        /\ initialSize = 2
        /\ th[t].pc = "done" /\ th[t].outcome = "got" /\ th[t].c = 2
        /\ freeItems = <<1>>

\* C20: a sample passed to get_item has its start stamped when the call
\* begins, before any inspection; while the call waits and when it fails
\* finish and elapsed_time are what they were before the call; when it
\* returns a handle finish >= start and elapsed_time = finish - start >= 0.
SampleStampingC20 ==
    \A t \in Threads :
        th[t].sample.given =>
            /\ (InGetItem(th[t]) \/ Exhausted(t))
                => /\ th[t].sample.init = th[t].t0
                   /\ Stamps(th[t].sample) = gh[t].before
            /\ th[t].pc = "ctor_detect"
                => /\ th[t].sample.init = th[t].t0
                   /\ th[t].sample.finish >= th[t].sample.init
                   /\ th[t].sample.finish <= now
                   /\ th[t].sample.elapsed_time
                        = th[t].sample.finish - th[t].sample.init
                   /\ th[t].sample.elapsed_time >= 0

WitnessC20 ==
    \E t \in Threads :
        /\ Exhausted(t) /\ th[t].sample.given
        /\ th[t].sample.init = 1
        /\ th[t].sample.finish = 0 /\ th[t].sample.elapsed_time = 1
        /\ gh[t].inspections = 2

CriticalSections == {"gi_cs", "si_cs", "cb_cs", "ac_cs"}
LockWaits == {"gi_lock", "si_lock", "cb_lock", "ac_lock"}

\* C17: a get_item call with a finite max_wait_ms ends, with a handle or with
\* the pool-exhausted error and in no other way, and when it fails with
\* max_wait_ms > 0 at least max_wait_ms have passed since the call began.
TimeoutC17 ==
    /\ \A t \in Threads :
        [](Exhausted(t) /\ th[t].max_wait_ms > 0
            => /\ th[t].elapsed >= th[t].max_wait_ms
               /\ now - th[t].t0 >= th[t].max_wait_ms)
    /\ [][\A t \in Threads :
            (InGetItem(th[t]) /\ ~InGetItem(th'[t]))
                => \/ th'[t].pc = "done" /\ th'[t].outcome = "got" /\ th'[t].c # NULL
                   \/ th'[t].pc = "ctor_detect" /\ th'[t].p # NULL
                   \/ th'[t].pc = "done" /\ th'[t].outcome = "exhausted"]_vars
    /\ \A t \in Threads :
        [](InGetItem(th[t]) /\ th[t].max_wait_ms # UnlimitedWait
            => <>(~InGetItem(th[t])))

WitnessC17 ==
    \E t \in Threads :
        /\ Exhausted(t) /\ th[t].max_wait_ms = 2
        /\ now - th[t].t0 = 2
        /\ freeItems # <<>>

\* C18: the lock is held exactly by the thread inside a critical section of
\* one of the four operations, never by a thread that sleeps in get_item or
\* has returned or thrown; a holder always releases it, and a thread waiting
\* for the lock always gets it.
LockDisciplineC18 ==
    /\ [](\A t \in Threads : lock = t <=> th[t].pc \in CriticalSections)
    /\ [](lock \in Threads \cup {NoThread})
    /\ \A t \in Threads : [](lock = t => <>(lock # t))
    /\ \A t \in Threads : [](th[t].pc \in LockWaits => <>(th[t].pc \notin LockWaits))

WitnessC18 ==
    \E t, u \in Threads :
        /\ lock = t /\ th[t].pc = "cb_cs"
        /\ th[u].pc = "gi_sleep" /\ gh[u].inspections = 2

\* C21: after any sequence of operations, set_item calls with an empty
\* handle included, the free list holds only non-empty handles and its
\* length, which available_count() returns, is at most the initial
\* capacity: a redundant set_item leaves the free list as it was.
FreeListBoundC21 ==
    /\ \A k \in 1..Len(freeItems) : freeItems[k] # NULL
    /\ AvailableCount(freeItems) <= initialSize

\* C22: whenever the average is evaluated, the value compared with the
\* trigger level and passed to the callback is floor(sum / count) of the
\* samples in the window, the sum taken without wrap-around.
AverageExactC22 ==
    (det.kind = "average" /\ dh.n >= 1 /\ dh.evaluated)
        => LET mean == ExactMean(det.samples) IN
            dh.callbacks = IF Gt32(mean, det.trigger_level)
                           THEN <<<<det.id, det.trigger_level, mean>>>>
                           ELSE <<>>

====
